---- MODULE Spec2Model ----
(***************************************************************************)
(* RigelEngine: the player control state machine, the map scroll system    *)
(* (src/game_logic/player_control_system.cpp) and the tile map renderer    *)
(* (src/engine/map_renderer.cpp).                                          *)
(*                                                                         *)
(* Velocities are kept in tenths of a tile per tick: -3.6f is -36, 1.0f is *)
(* 10.  Positions, tiles and pixels are integers as in the source.         *)
(***************************************************************************)
EXTENDS Integers, Sequences, FiniteSets, TLC

VARIABLES
  level,          \* the map the systems were built for: size, ladders, interactables
  state,          \* PlayerControlled component
  physical,       \* Physical component of the player
  worldPosition,  \* WorldPosition component of the player
  sprite,         \* Sprite component: mFramesToRender[0] and the Animated sequence
  mTimeStepper,   \* PlayerControlSystem::mTimeStepper, in whole ticks
  last,           \* observation of the last operation: its inputs, branches, events
  mScrollOffset,  \* *MapScrollSystem::mpScrollOffset
  mScrollStepper, \* MapScrollSystem::mTimeStepper, in whole ticks
  scrolled,       \* observation of the last scroll update
  tileMap,        \* *MapRenderer::mpMap: size, tiles of both layers, attribute dictionary
  mElapsedFrames, \* MapRenderer::mElapsedFrames
  animTrace,      \* the drawn index of every tile, after each of the last calls
                  \* of updateAnimatedMapTiles
  drawn,          \* observation of the last tile rendering call: lookups and draws
  mScrollMode,    \* MapRenderer::mScrollMode
  mElapsedFrames60Fps, \* MapRenderer::mElapsedFrames60Fps
  backdrop        \* observation of the last renderBackdrop call

vars == <<level, state, physical, worldPosition, sprite, mTimeStepper, last,
          mScrollOffset, mScrollStepper, scrolled,
          tileMap, mElapsedFrames, animTrace, drawn,
          mScrollMode, mElapsedFrames60Fps, backdrop>>

controlVars == <<state, physical, worldPosition, sprite, mTimeStepper, last>>
scrollVars == <<mScrollOffset, mScrollStepper, scrolled>>
playerVars == <<level, state, physical, worldPosition, sprite, mTimeStepper, last>>
tileVars == <<tileMap, mElapsedFrames, animTrace, drawn>>
backdropVars == <<mScrollMode, mElapsedFrames60Fps, backdrop>>
rendererVars == <<tileVars, backdropVars>>

-----------------------------------------------------------------------------
(* Bounds of the model *)

\* an update call's time delta covers 1..MaxDt ticks
MaxDt == 1
\* the player's row ranges over 4..4+MaxPosY
MaxPosY == 2

-----------------------------------------------------------------------------
(* Helpers of the engine used by both systems *)

Max(a, b) == IF a >= b THEN a ELSE b
Min(a, b) == IF a <= b THEN a ELSE b

\* base::Rect<int>: topLeft (x, y) and size (w, h)
Rect(x, y, w, h) == [x |-> x, y |-> y, w |-> w, h |-> h]
RectBottom(r) == r.y + (r.h - 1)
RectRight(r) == r.x + (r.w - 1)

\* base::Grid::valueAtWithDefault on the ladder flag grid: cells outside the
\* grid read as the default (0, not a ladder)
valueAtWithDefault(lv, col, row) ==
  IF col >= 0 /\ col < lv.width /\ row >= 0 /\ row < lv.height
    THEN (IF <<col, row>> \in lv.ladders THEN 1 ELSE 0)
    ELSE 0

\* engine::updateAndCheckIfDesiredTicksElapsed: add the elapsed ticks to the
\* stepper; when the desired number is reached, start over and report it
StepperFires(stepper, desiredTicks, dt) == stepper + dt >= desiredTicks
StepperNext(stepper, desiredTicks, dt) ==
  IF stepper + dt >= desiredTicks THEN 0 ELSE stepper + dt

\* SDL_HasIntersection of two rectangles
HasIntersection(a, b) ==
  /\ a.w > 0 /\ a.h > 0 /\ b.w > 0 /\ b.h > 0
  /\ a.x < b.x + b.w /\ b.x < a.x + a.w
  /\ a.y < b.y + b.h /\ b.y < a.y + a.h

-----------------------------------------------------------------------------
(* The levels the model runs in *)

\* the player's column: left of, at and right of the map's first column
PosXs == {0 - 1, 0, 1}
PosYs == 4 .. (4 + MaxPosY)

\* a ladder in column 3, rows 1..5, of a map 5 wide and 7 high; two
\* interactable entities left of the map's first columns
SideLadder == {<<3, 1>>, <<3, 2>>, <<3, 3>>, <<3, 4>>, <<3, 5>>}
\* a ladder two cells wide, reaching the top and the bottom row of the map
WideLadder == {<<0, 0>>, <<1, 0>>, <<0, 1>>, <<1, 1>>, <<1, 5>>, <<1, 6>>}

Levels ==
  { [width |-> 5, height |-> 7, ladders |-> SideLadder,
     interactables |-> {[id |-> 1, x |-> 0 - 2, y |-> 2],
                        [id |-> 2, x |-> 0 - 3, y |-> 2]}],
    [width |-> 5, height |-> 7, ladders |-> WideLadder, interactables |-> {}] }

Inputs ==
  [mMovingLeft : BOOLEAN, mMovingRight : BOOLEAN, mMovingUp : BOOLEAN,
   mMovingDown : BOOLEAN, mJumping : BOOLEAN]

\* vertical velocities the physics system leaves a body under gravity with:
\* at rest on the ground, or falling
VelYs == {0, 20}

PlayerStates ==
  {"Standing", "Walking", "LookingUp", "Crouching", "Airborne", "ClimbingLadder"}

-----------------------------------------------------------------------------
(* MapRenderer: the tile layers *)

\* maps are 1..MaxMapDim cells wide and high
MaxMapDim == 2
\* updateAnimatedMapTiles is followed for MaxFrames calls
MaxFrames == 16

ANIM_STATES == 4
FAST_ANIM_FRAME_DELAY == 1
SLOW_ANIM_FRAME_DELAY == 2

TileIndices == 0 .. 3

\* two attribute dictionaries over the tile indices: in the first, tile 1 is
\* animated fast, tile 2 is a foreground tile and tile 3 an animated slow
\* foreground tile; in the second, the transparent tile 0 and the fast
\* animated tile 1 are foreground tiles and tile 2 is animated slow
AttributeDicts ==
  { [foreground |-> {2, 3}, animated |-> {1, 3}, fastAnimation |-> {1}],
    [foreground |-> {0, 1}, animated |-> {1, 2}, fastAnimation |-> {1}] }

\* two ways of filling the two layers of a map with tiles
TilePatterns == {1, 2}
TileOfPattern(pattern, layer, col, row) ==
  IF pattern = 1
    THEN (col + 2 * row + 3 * layer) % 4
    ELSE (1 + col + row + 2 * layer) % 4

TileMaps ==
  [width : 1 .. MaxMapDim, height : 1 .. MaxMapDim,
   pattern : TilePatterns, attributes : AttributeDicts]

InMap(m, col, row) == col >= 0 /\ col < m.width /\ row >= 0 /\ row < m.height

\* data::map::Map::tileAt: a cell of the map; a lookup outside the map reads
\* whatever lies there (garbage)
tileAt(m, layer, col, row, garbage) ==
  IF InMap(m, col, row) THEN TileOfPattern(m.pattern, layer, col, row) ELSE garbage

isForeGround(m, tileIndex) == tileIndex \in m.attributes.foreground
isAnimated(m, tileIndex) == tileIndex \in m.attributes.animated
isFastAnimation(m, tileIndex) == tileIndex \in m.attributes.fastAnimation

animatedTileIndex_ThreeStates(m, elapsedFrames, tileIndex) ==
  IF isAnimated(m, tileIndex)
    THEN LET fastAnimOffset == (elapsedFrames \div FAST_ANIM_FRAME_DELAY) % 3
             slowAnimOffset == (elapsedFrames \div SLOW_ANIM_FRAME_DELAY) % 3
         IN tileIndex + (IF isFastAnimation(m, tileIndex)
                           THEN fastAnimOffset ELSE slowAnimOffset)
    ELSE tileIndex

\* MapRenderer::animatedTileIndex
animatedTileIndex(m, elapsedFrames, tileIndex) ==
  IF isAnimated(m, tileIndex)
    THEN LET fastAnimOffset == (elapsedFrames \div FAST_ANIM_FRAME_DELAY) % ANIM_STATES
             slowAnimOffset == (elapsedFrames \div SLOW_ANIM_FRAME_DELAY) % ANIM_STATES
         IN tileIndex + (IF isFastAnimation(m, tileIndex)
                           THEN fastAnimOffset ELSE slowAnimOffset)
    ELSE tileIndex

renderTile_NoTransparency(m, elapsedFrames, tileIndex, x, y) ==
  {[tile |-> tileIndex, index |-> animatedTileIndex(m, elapsedFrames, tileIndex),
    x |-> x, y |-> y]}

\* MapRenderer::renderTile: the draws issued to the tile set texture
renderTile(m, elapsedFrames, tileIndex, x, y) ==
  IF tileIndex # 0
    THEN {[tile |-> tileIndex, index |-> animatedTileIndex(m, elapsedFrames, tileIndex),
           x |-> x, y |-> y]}
    ELSE {}

\* MapRenderer::renderMapTiles: the cells looked up and the draws issued
renderMapTiles(m, elapsedFrames, sectionStart, sectionSize, foreground, garbage) ==
  LET visited ==
        {c \in (0 .. 1) \X (0 .. (sectionSize.width - 1))
                        \X (0 .. (sectionSize.height - 1)) :
           ~((c[2] + sectionStart.x >= m.width) \/ (c[3] + sectionStart.y >= m.height))}
      tileIndexAt(c) ==
        tileAt(m, c[1], c[2] + sectionStart.x, c[3] + sectionStart.y, garbage)
  IN [lookups |-> {<<c[1], c[2] + sectionStart.x, c[3] + sectionStart.y>> : c \in visited},
      draws |-> UNION {IF isForeGround(m, tileIndexAt(c)) = foreground
                         THEN renderTile(m, elapsedFrames, tileIndexAt(c), c[2], c[3])
                         ELSE {} : c \in visited}]

\* the drawn index of every tile at the current value of the frame counter
AnimationTable(m, elapsedFrames) ==
  [t \in TileIndices |-> animatedTileIndex(m, elapsedFrames, t)]

\* the last 9 elements of a sequence
Last9(seq) == IF Len(seq) > 9 THEN SubSeq(seq, Len(seq) - 8, Len(seq)) ELSE seq

\* MapRenderer::renderBackground(sectionStart, sectionSize)
RenderBackground(sectionStart, sectionSize, garbage) ==
  /\ drawn' = [op |-> "background", sectionStart |-> sectionStart,
               sectionSize |-> sectionSize] @@
              renderMapTiles(tileMap, mElapsedFrames, sectionStart, sectionSize,
                             FALSE, garbage)
  /\ UNCHANGED <<playerVars, scrollVars, tileMap, mElapsedFrames, animTrace,
                 backdropVars>>

\* MapRenderer::renderForeground(sectionStart, sectionSize)
RenderForeground(sectionStart, sectionSize, garbage) ==
  /\ drawn' = [op |-> "foreground", sectionStart |-> sectionStart,
               sectionSize |-> sectionSize] @@
              renderMapTiles(tileMap, mElapsedFrames, sectionStart, sectionSize,
                             TRUE, garbage)
  /\ UNCHANGED <<playerVars, scrollVars, tileMap, mElapsedFrames, animTrace,
                 backdropVars>>

\* MapRenderer::renderSingleTile(index, position, cameraPosition)
RenderSingleTile(index, position, cameraPosition) ==
  /\ drawn' = [op |-> "single", requested |-> index, lookups |-> {},
               draws |-> renderTile(tileMap, mElapsedFrames, index,
                                    position.x - cameraPosition.x,
                                    position.y - cameraPosition.y)]
  /\ UNCHANGED <<playerVars, scrollVars, tileMap, mElapsedFrames, animTrace,
                 backdropVars>>

\* MapRenderer::updateAnimatedMapTiles
UpdateAnimatedMapTiles ==
  /\ mElapsedFrames < MaxFrames
  /\ mElapsedFrames' = mElapsedFrames + 1
  /\ animTrace' = Last9(Append(animTrace, AnimationTable(tileMap, mElapsedFrames + 1)))
  /\ drawn' = [op |-> "animate"]
  /\ UNCHANGED <<playerVars, scrollVars, tileMap, backdropVars>>

\* what a lookup outside the map may read: the transparent tile or another
GarbageTiles == {0, 2}

\* the sections asked for: origins left of, above, at and inside the map;
\* one cell, or a section that extends past the map
SectionStarts == {0 - 1, 0, 1}
SectionSizes == {[width |-> 1, height |-> 1], [width |-> 3, height |-> 2]}

-----------------------------------------------------------------------------
(* MapRenderer: the backdrop *)

\* renderBackdrop is followed for MaxFrames60 calls in the auto-scroll modes
MaxFrames60 == 650

PARALLAX_FACTOR == 4
\* data::GameTraits::viewPortWidthPx, viewPortHeightPx, tileSize
viewPortWidthPx == 320
viewPortHeightPx == 200
tileSize == 8
\* the extents of a backdrop texture
BackdropExtents == [width |-> 320, height |-> 200]

ScrollModes ==
  {"None", "ParallaxHorizontal", "ParallaxVertical", "ParallaxBoth",
   "AutoHorizontal", "AutoVertical"}

\* the % of C++ on ints: the remainder has the sign of the dividend
Remainder(a, b) == IF a >= 0 THEN a % b ELSE 0 - ((0 - a) % b)

wrapBackgroundOffset(offset) ==
  [x |-> Remainder(offset.x, viewPortWidthPx),
   y |-> Remainder(offset.y, viewPortHeightPx)]

\* base::round(frames / speedFactor) in round-to-nearest mode: the nearest
\* integers of the quotient (two of them at a tie)
round(frames, speedFactor) ==
  {q \in {frames \div speedFactor, (frames \div speedFactor) + 1} :
     LET d == q * speedFactor - frames
     IN 2 * (IF d >= 0 THEN d ELSE 0 - d) <= speedFactor}

\* base::integerDivCeil
integerDivCeil(a, b) == (a + b - 1) \div b
tilesToPixels(tiles) == tiles * tileSize

speedFactor_Swapped(mode) == IF mode = "AutoHorizontal" THEN 1 ELSE 2

\* line 115
speedFactor(mode) == IF mode = "AutoHorizontal" THEN 2 ELSE 1

\* lines 99-126 for the parallax modes and the modes without scrolling
ParallaxOffset(mode, cameraPosition) ==
  LET parallaxBoth == mode = "ParallaxBoth"
      parallaxHorizontal == mode = "ParallaxHorizontal" \/ parallaxBoth
  IN IF parallaxHorizontal \/ parallaxBoth
       THEN wrapBackgroundOffset(
              [x |-> IF parallaxHorizontal THEN cameraPosition.x * PARALLAX_FACTOR ELSE 0,
               y |-> IF parallaxBoth THEN cameraPosition.y * PARALLAX_FACTOR ELSE 0])
       ELSE [x |-> 0, y |-> 0]

\* lines 120-125
AutoScrollOffset(mode, offsetPixels) ==
  IF mode = "AutoHorizontal"
    THEN [x |-> Remainder(offsetPixels, viewPortWidthPx), y |-> 0]
    ELSE [x |-> 0,
          y |-> viewPortHeightPx - Remainder(offsetPixels, viewPortHeightPx)]

\* lines 128-146: the source and target rectangles of the draw call
BackdropRects(viewPortSize) ==
  LET backdropWidth == BackdropExtents.width
      numRepetitions == integerDivCeil(tilesToPixels(viewPortSize.width), backdropWidth)
  IN [sourceRectSize |-> [width |-> BackdropExtents.width * numRepetitions,
                          height |-> BackdropExtents.height],
      targetRectSize |-> [width |-> backdropWidth * numRepetitions,
                          height |-> tilesToPixels(viewPortSize.height)]]

IsAutoScroll(mode) == mode \in {"AutoHorizontal", "AutoVertical"}

\* MapRenderer::renderBackdrop(cameraPosition, viewPortSize)
RenderBackdrop(cameraPosition, viewPortSize) ==
  /\ IsAutoScroll(mScrollMode) => mElapsedFrames60Fps < MaxFrames60
  /\ \E offsetPixels \in (IF IsAutoScroll(mScrollMode)
                            THEN round(mElapsedFrames60Fps, speedFactor(mScrollMode))
                            ELSE {0}) :
       /\ mElapsedFrames60Fps' =
            IF IsAutoScroll(mScrollMode) THEN mElapsedFrames60Fps + 1
                                         ELSE mElapsedFrames60Fps
       /\ backdrop' =
            [op |-> "backdrop", cameraPosition |-> cameraPosition,
             frames |-> mElapsedFrames60Fps, offsetPixels |-> offsetPixels,
             offset |-> IF IsAutoScroll(mScrollMode)
                          THEN AutoScrollOffset(mScrollMode, offsetPixels)
                          ELSE ParallaxOffset(mScrollMode, cameraPosition),
             rects |-> BackdropRects(viewPortSize)]
  /\ UNCHANGED <<playerVars, scrollVars, tileVars, mScrollMode>>

\* sample camera positions: both signs, and on both sides of a wrap
CameraXs == {0 - 81, 0 - 1, 0, 1, 80}
CameraYs == {0 - 51, 0, 50}
ViewPortSizes == {[width |-> 32, height |-> 20], [width |-> 40, height |-> 25]}

\* a renderer that has rendered nothing yet
RendererIdle ==
  /\ tileMap = [width |-> 1, height |-> 1, pattern |-> 1,
                attributes |-> [foreground |-> {}, animated |-> {},
                                fastAnimation |-> {}]]
  /\ mElapsedFrames = 0
  /\ animTrace = <<>>
  /\ drawn = [op |-> "none"]
  /\ mScrollMode = "None"
  /\ mElapsedFrames60Fps = 0
  /\ backdrop = [op |-> "none"]

-----------------------------------------------------------------------------
(* PlayerControlSystem::update, block by block.  Each block takes and       *)
(* returns the context c: the four components of the player entity and the *)
(* locals of update.                                                       *)

None == [none |-> TRUE]

\* lines 133-142: the components and the sampled inputs
Prologue(in, hasTicks) ==
  [state |-> state, physical |-> physical, worldPosition |-> worldPosition,
   sprite |-> sprite, hasTicks |-> hasTicks,
   movingLeft |-> in.mMovingLeft, movingRight |-> in.mMovingRight,
   movingUp |-> in.mMovingUp, movingDown |-> in.mMovingDown,
   jumping |-> in.mJumping,
   oldState |-> state.mState, oldOrientation |-> state.mOrientation,
   horizontalMovementWanted |-> FALSE, verticalMovementWanted |-> FALSE,
   worldSpacePlayerBounds |-> Rect(0, 0, 0, 0),
   ladderTouchPoint |-> None,
   events |-> {}]

ClearPerformedInteraction(c) ==
  IF c.state.mPerformedInteraction /\ ~c.movingUp
    THEN [c EXCEPT !.state.mPerformedInteraction = FALSE]
    ELSE c

FilterConflictingInputs(c) ==
  LET c1 == IF c.movingLeft /\ c.movingRight
              THEN [c EXCEPT !.movingLeft = FALSE, !.movingRight = FALSE]
              ELSE c
  IN IF c1.movingUp /\ c1.movingDown
       THEN [c1 EXCEPT !.movingUp = FALSE, !.movingDown = FALSE]
       ELSE c1

UpdateLocals(c) ==
  LET r == c.physical.mCollisionRect IN
  [c EXCEPT
     !.oldState = c.state.mState,
     !.horizontalMovementWanted = c.movingLeft \/ c.movingRight,
     !.verticalMovementWanted = c.movingUp \/ c.movingDown,
     !.worldSpacePlayerBounds =
        Rect(r.x + c.worldPosition.x,
             (r.y + c.worldPosition.y) - (r.h - 1), r.w, r.h)]

\* the cells findLadderTouchPoint visits, in its order: row by row from the
\* top of the box, and left to right within a row
CellBefore(a, b) == a[2] < b[2] \/ (a[2] = b[2] /\ a[1] < b[1])

findLadderTouchPoint_TopRowOnly(lv, bounds) ==
  LET cells == {cell \in (bounds.x .. (bounds.x + bounds.w - 1)) \X {bounds.y} :
                  valueAtWithDefault(lv, cell[1], cell[2]) # 0}
  IN IF cells = {} THEN None
     ELSE LET first == CHOOSE a \in cells : \A b \in cells : a = b \/ CellBefore(a, b)
          IN [none |-> FALSE, x |-> first[1], y |-> first[2]]

findLadderTouchPoint(lv, bounds) ==
  LET cells == {cell \in (bounds.x .. (bounds.x + bounds.w - 1))
                          \X (bounds.y .. (bounds.y + bounds.h - 1)) :
                  valueAtWithDefault(lv, cell[1], cell[2]) # 0}
  IN IF cells = {} THEN None
     ELSE LET first == CHOOSE a \in cells : \A b \in cells : a = b \/ CellBefore(a, b)
          IN [none |-> FALSE, x |-> first[1], y |-> first[2]]

canClimbUp(lv, bounds) ==
  LET row == bounds.y - 1 IN
  \E x \in 0 .. (bounds.w - 1) : valueAtWithDefault(lv, x + bounds.x, row) = 1

canClimbDown_SameRow(lv, bounds) ==
  LET row == RectBottom(bounds) IN
  \E x \in 0 .. (bounds.w - 1) : valueAtWithDefault(lv, x + bounds.x, row) = 1

canClimbDown(lv, bounds) ==
  LET row == RectBottom(bounds) + 1 IN
  \E x \in 0 .. (bounds.w - 1) : valueAtWithDefault(lv, x + bounds.x, row) = 1

offsetForOrientation_Swapped(orientation) == IF orientation = "Left" THEN 1 ELSE 0

offsetForOrientation(orientation) == IF orientation = "Left" THEN 0 ELSE 1

CheckLadderAttachment(c) ==
  IF c.verticalMovementWanted /\ c.state.mState # "ClimbingLadder" /\ c.movingUp
    THEN LET ladderTouchPoint == findLadderTouchPoint(level, c.worldSpacePlayerBounds) IN
         IF ~ladderTouchPoint.none
           THEN LET relativeLadderTouchX == ladderTouchPoint.x - c.worldPosition.x
                    diff == relativeLadderTouchX
                              - offsetForOrientation(c.state.mOrientation)
                IN [c EXCEPT !.state.mState = "ClimbingLadder",
                             !.worldPosition.x = @ + diff,
                             !.physical.mGravityAffected = FALSE,
                             !.ladderTouchPoint = ladderTouchPoint]
           ELSE c
    ELSE c

ClimbingIgnoresHorizontal_Off(c) == c

ClimbingIgnoresHorizontal(c) ==
  IF c.state.mState = "ClimbingLadder"
    THEN [c EXCEPT !.horizontalMovementWanted = FALSE]
    ELSE c

AdjustOrientation(c) ==
  LET c1 == [c EXCEPT !.oldOrientation = c.state.mOrientation] IN
  IF c1.horizontalMovementWanted
    THEN [c1 EXCEPT !.state.mOrientation = IF c.movingLeft THEN "Left" ELSE "Right"]
    ELSE c1

AirborneIgnoresVertical_Off(c) == c

AirborneIgnoresVertical(c) ==
  IF c.state.mState = "Airborne"
    THEN [c EXCEPT !.verticalMovementWanted = FALSE]
    ELSE c

VerticalCancelsHorizontal_Off(c) == c

VerticalCancelsHorizontal(c) ==
  IF c.verticalMovementWanted
     /\ c.state.mState \in {"LookingUp", "Crouching", "Standing", "Walking"}
    THEN [c EXCEPT !.horizontalMovementWanted = FALSE]
    ELSE c

ClimbLadder_KeepsGravityOff(c) ==
  IF c.state.mState = "ClimbingLadder"
    THEN IF c.movingUp
           THEN IF canClimbUp(level, c.worldSpacePlayerBounds)
                  THEN [c EXCEPT !.physical.mVelocity.y = 0 - 10]
                  ELSE [c EXCEPT !.physical.mVelocity.y = 0]
           ELSE IF c.movingDown
                  THEN IF canClimbDown(level, c.worldSpacePlayerBounds)
                         THEN [c EXCEPT !.physical.mVelocity.y = 10]
                         ELSE [c EXCEPT !.state.mState = "Airborne",
                                        !.physical.mVelocity.y = 10,
                                        !.verticalMovementWanted = FALSE]
                  ELSE [c EXCEPT !.physical.mVelocity.y = 0]
    ELSE c

ClimbLadder(c) ==
  IF c.state.mState = "ClimbingLadder"
    THEN IF c.movingUp
           THEN IF canClimbUp(level, c.worldSpacePlayerBounds)
                  THEN [c EXCEPT !.physical.mVelocity.y = 0 - 10]
                  ELSE [c EXCEPT !.physical.mVelocity.y = 0]
           ELSE IF c.movingDown
                  THEN IF canClimbDown(level, c.worldSpacePlayerBounds)
                         THEN [c EXCEPT !.physical.mVelocity.y = 10]
                         ELSE [c EXCEPT !.state.mState = "Airborne",
                                        !.physical.mGravityAffected = TRUE,
                                        !.physical.mVelocity.y = 10,
                                        !.verticalMovementWanted = FALSE]
                  ELSE [c EXCEPT !.physical.mVelocity.y = 0]
    ELSE c

\* lines 254-265: an interactable's bounds are built from its position and the
\* size of the player's collision rectangle
InteractablesInReach(c) ==
  LET size == c.physical.mCollisionRect IN
  {e \in level.interactables :
     HasIntersection(Rect(e.x, e.y - (size.h - 1), size.w, size.h),
                     c.worldSpacePlayerBounds)}

LookUpOrCrouch_Retriggers(c) ==
  LET c1 == [c EXCEPT !.state.mIsLookingDown = FALSE, !.state.mIsLookingUp = FALSE] IN
  IF c1.verticalMovementWanted /\ c1.state.mState # "ClimbingLadder"
    THEN IF c1.movingUp
           THEN LET c2 == [c1 EXCEPT !.state.mState = "LookingUp",
                                     !.state.mIsLookingUp = TRUE]
                    hit == InteractablesInReach(c2)
                IN IF hit # {}
                     THEN [c2 EXCEPT !.events = {e.id : e \in hit},
                                     !.state.mPerformedInteraction = TRUE]
                     ELSE c2
           ELSE [c1 EXCEPT !.state.mState = "Crouching",
                           !.state.mIsLookingDown = TRUE]
    ELSE c1

LookUpOrCrouch(c) ==
  LET c1 == [c EXCEPT !.state.mIsLookingDown = FALSE, !.state.mIsLookingUp = FALSE] IN
  IF c1.verticalMovementWanted /\ c1.state.mState # "ClimbingLadder"
    THEN IF c1.movingUp
           THEN LET c2 == [c1 EXCEPT !.state.mState = "LookingUp",
                                     !.state.mIsLookingUp = TRUE]
                    hit == InteractablesInReach(c2)
                IN IF ~c2.state.mPerformedInteraction /\ hit # {}
                     THEN [c2 EXCEPT !.events = {e.id : e \in hit},
                                     !.state.mPerformedInteraction = TRUE]
                     ELSE c2
           ELSE [c1 EXCEPT !.state.mState = "Crouching",
                           !.state.mIsLookingDown = TRUE]
    ELSE c1

BackToStanding(c) ==
  IF ~c.verticalMovementWanted /\ c.state.mState \in {"LookingUp", "Crouching"}
    THEN [c EXCEPT !.state.mState = "Standing"]
    ELSE c

UpdateWalking(c) ==
  IF ~c.horizontalMovementWanted
    THEN LET c1 == IF c.state.mState = "Walking"
                     THEN [c EXCEPT !.state.mState = "Standing"]
                     ELSE c
         IN [c1 EXCEPT !.physical.mVelocity.x = 0]
    ELSE LET c1 == IF c.state.mState = "Standing"
                     THEN [c EXCEPT !.state.mState = "Walking"]
                     ELSE c
         IN IF c1.state.mState \in {"Walking", "Airborne"}
               /\ c1.hasTicks /\ c1.horizontalMovementWanted
              THEN [c1 EXCEPT !.physical.mVelocity.x =
                                 IF c1.movingLeft THEN 0 - 10 ELSE 10]
              ELSE c1

Land(c) ==
  IF c.physical.mVelocity.y = 0 /\ c.state.mState = "Airborne"
    THEN [c EXCEPT !.state.mState = "Standing"]
    ELSE c

Jump_KeepsGravityFlag(c) ==
  IF c.jumping /\ c.state.mState # "Airborne"
    THEN [c EXCEPT !.physical.mVelocity.y = 0 - 36,
                   !.state.mState = "Airborne"]
    ELSE c

Jump(c) ==
  IF c.jumping /\ c.state.mState # "Airborne"
    THEN [c EXCEPT !.physical.mVelocity.y = 0 - 36,
                   !.physical.mGravityAffected = TRUE,
                   !.state.mState = "Airborne"]
    ELSE c

newAnimationFrame(mState) ==
  CASE mState = "Standing" -> 0
    [] mState = "Walking" -> 1
    [] mState = "LookingUp" -> 16
    [] mState = "Crouching" -> 17
    [] mState = "Airborne" -> 8
    [] mState = "ClimbingLadder" -> 36
    [] OTHER -> 0

NoAnimation == [none |-> TRUE]

updateAnimationStateAndBoundingBox(c) ==
  LET newBoundingRect ==
        Rect(0, 0, 3, IF c.state.mState = "Crouching" THEN 4 ELSE 5)
      orientationOffset == IF c.state.mOrientation = "Right" THEN 39 ELSE 0
      orientedAnimationFrame == newAnimationFrame(c.state.mState) + orientationOffset
  IN [c EXCEPT
        !.sprite.mFramesToRender = orientedAnimationFrame,
        !.sprite.animated =
           IF c.state.mState = "Walking"
             THEN [none |-> FALSE, delay |-> 4,
                   startFrame |-> orientedAnimationFrame,
                   endFrame |-> orientedAnimationFrame + 3]
             ELSE NoAnimation,
        !.physical.mCollisionRect = newBoundingRect]

UpdateAnimation_IgnoresOrientation(c) ==
  IF c.state.mState # c.oldState
    THEN updateAnimationStateAndBoundingBox(c)
    ELSE c

UpdateAnimation(c) ==
  IF c.state.mState # c.oldState \/ c.state.mOrientation # c.oldOrientation
    THEN updateAnimationStateAndBoundingBox(c)
    ELSE c

\* the whole of update, in the order of the source
update(in, hasTicks) ==
  UpdateAnimation(Jump(Land(UpdateWalking(BackToStanding(LookUpOrCrouch(
    ClimbLadder(VerticalCancelsHorizontal(AirborneIgnoresVertical(
      AdjustOrientation(ClimbingIgnoresHorizontal(CheckLadderAttachment(
        UpdateLocals(FilterConflictingInputs(ClearPerformedInteraction(
          Prologue(in, hasTicks))))))))))))))))

-----------------------------------------------------------------------------
(* The player entity and the actions on it *)

\* initializePlayerEntity, on an entity placed at (x, y)
InitialState(isFacingRight) ==
  [mState |-> "Standing",
   mOrientation |-> IF isFacingRight THEN "Right" ELSE "Left",
   mIsLookingUp |-> FALSE, mIsLookingDown |-> FALSE,
   mPerformedInteraction |-> FALSE]

InitialSprite(isFacingRight) ==
  [mFramesToRender |-> IF isFacingRight THEN 39 ELSE 0, animated |-> NoAnimation]

InitialPhysical ==
  [mCollisionRect |-> Rect(0, 0, 3, 5), mVelocity |-> [x |-> 0, y |-> 0],
   mGravityAffected |-> TRUE]

NoOperation == [op |-> "none"]

\* PlayerControlSystem::update(es, events, dt) with the inputs `in` held
PlayerUpdate(in, dt) ==
  \E hasTicks \in {StepperFires(mTimeStepper, 2, dt)} :
  \E c \in {update(in, hasTicks)} :
     /\ mTimeStepper' = StepperNext(mTimeStepper, 2, dt)
     /\ state' = c.state
     /\ physical' = c.physical
     /\ worldPosition' = c.worldPosition
     /\ sprite' = c.sprite
     /\ last' = [op |-> "update", in |-> in, dt |-> dt,
                 oldState |-> state.mState,
                 startedAtRest |-> (physical.mVelocity.x = 0),
                 oldBounds |-> c.worldSpacePlayerBounds,
                 ladderTouchPoint |-> c.ladderTouchPoint,
                 events |-> c.events]
     /\ UNCHANGED <<level, mScrollOffset, mScrollStepper, scrolled, rendererVars>>

\* the physics system between two updates: it moves the player and, for a
\* body under gravity, changes its vertical velocity
PhysicsStep(x, y, vy) ==
  /\ worldPosition' = [x |-> x, y |-> y]
  /\ physical' = [physical EXCEPT
                    !.mVelocity.y = IF physical.mGravityAffected THEN vy ELSE @]
  /\ last' = [op |-> "physics"]
  /\ UNCHANGED <<level, state, sprite, mTimeStepper,
                 mScrollOffset, mScrollStepper, scrolled, rendererVars>>

Init ==
  /\ level \in Levels
  /\ \E isFacingRight \in BOOLEAN :
       /\ state = InitialState(isFacingRight)
       /\ sprite = InitialSprite(isFacingRight)
  /\ physical = InitialPhysical
  /\ worldPosition \in [x : PosXs, y : PosYs]
  /\ mTimeStepper = 0
  /\ last = NoOperation
  /\ mScrollOffset = [x |-> 0, y |-> 0]
  /\ mScrollStepper = 0
  /\ scrolled = NoOperation
  /\ RendererIdle

Next ==
  \/ \E in \in Inputs, dt \in 1 .. MaxDt : PlayerUpdate(in, dt)
  \/ \E x \in PosXs, y \in PosYs, vy \in VelYs : PhysicsStep(x, y, vy)

Spec == Init /\ [][Next]_vars

-----------------------------------------------------------------------------
(* MapScrollSystem *)

\* data::GameTraits::mapViewPortWidthTiles, mapViewPortHeightTiles
mapViewPortWidthTiles == 32
mapViewPortHeightTiles == 20

\* maps are up to MaxMargin tiles larger than the viewport on each axis (and
\* down to one tile smaller)
MaxMargin == 1

DefaultDeadZone ==
  Rect(11, 2, mapViewPortWidthTiles - 23, mapViewPortHeightTiles - 3)

ClimbingDeadZone ==
  Rect(11, 7, mapViewPortWidthTiles - 23, mapViewPortHeightTiles - 14)

scrollDeadZoneForState(mState) ==
  IF mState = "ClimbingLadder" THEN ClimbingDeadZone ELSE DefaultDeadZone

\* utils::clamp
clamp(value, minValue, maxValue) == Min(Max(value, minValue), maxValue)

\* MapScrollSystem::MapScrollSystem: mMaxScrollOffset
mMaxScrollOffset(lv) ==
  [width |-> lv.width - mapViewPortWidthTiles,
   height |-> lv.height - mapViewPortHeightTiles]

\* lines 479-488: the look nudge, when the two ticks have elapsed
LookNudge(st, fired) ==
  IF fired
    THEN (IF st.mIsLookingDown THEN 2 ELSE 0) - (IF st.mIsLookingUp THEN 2 ELSE 0)
    ELSE 0

DeadZoneCorrection_IgnoresBoxSize(offset, st, playerPosition, phys) ==
  LET zone == scrollDeadZoneForState(st.mState)
      worldSpaceDeadZone == Rect(zone.x + offset.x, zone.y + offset.y, zone.w, zone.h)
      offsetLeft == Max(0, worldSpaceDeadZone.x - playerPosition.x)
      offsetRight == Min(0, RectRight(worldSpaceDeadZone) - playerPosition.x)
      offsetTop == Max(0, worldSpaceDeadZone.y - playerPosition.y)
      offsetBottom == Min(0, RectBottom(worldSpaceDeadZone) - playerPosition.y)
  IN [x |-> (0 - offsetLeft) - offsetRight, y |-> (0 - offsetTop) - offsetBottom]

\* lines 490-511: the shift that brings the player's box back into the dead zone
DeadZoneCorrection(offset, st, playerPosition, phys) ==
  LET rect == phys.mCollisionRect
      playerBounds == Rect(playerPosition.x, playerPosition.y - (rect.h - 1),
                           rect.w, rect.h)
      zone == scrollDeadZoneForState(st.mState)
      worldSpaceDeadZone == Rect(zone.x + offset.x, zone.y + offset.y, zone.w, zone.h)
      offsetLeft == Max(0, worldSpaceDeadZone.x - playerPosition.x)
      offsetRight == Min(0, RectRight(worldSpaceDeadZone) - RectRight(playerBounds))
      offsetTop == Max(0, worldSpaceDeadZone.y - playerBounds.y)
      offsetBottom == Min(0, RectBottom(worldSpaceDeadZone) - RectBottom(playerBounds))
  IN [x |-> (0 - offsetLeft) - offsetRight, y |-> (0 - offsetTop) - offsetBottom]

updateScrollOffset_NoVerticalClamp(offset, lv, st, playerPosition, phys, fired) ==
  LET nudged == [offset EXCEPT !.y = @ + LookNudge(st, fired)]
      d == DeadZoneCorrection(nudged, st, playerPosition, phys)
      moved == [x |-> nudged.x + d.x, y |-> nudged.y + d.y]
  IN [nudged |-> nudged, unclamped |-> moved,
      offset |-> [x |-> clamp(moved.x, 0, mMaxScrollOffset(lv).width),
                  y |-> moved.y]]

\* MapScrollSystem::updateScrollOffset: the offset after the look nudge, after
\* the dead zone correction, and after the clamp
updateScrollOffset(offset, lv, st, playerPosition, phys, fired) ==
  LET nudged == [offset EXCEPT !.y = @ + LookNudge(st, fired)]
      d == DeadZoneCorrection(nudged, st, playerPosition, phys)
      moved == [x |-> nudged.x + d.x, y |-> nudged.y + d.y]
  IN [nudged |-> nudged, unclamped |-> moved,
      offset |-> [x |-> clamp(moved.x, 0, mMaxScrollOffset(lv).width),
                  y |-> clamp(moved.y, 0, mMaxScrollOffset(lv).height)]]

\* MapScrollSystem::update(es, events, dt)
ScrollUpdate(dt) ==
  \E fired \in {StepperFires(mScrollStepper, 2, dt)} :
  \E r \in {updateScrollOffset(mScrollOffset, level, state, worldPosition,
                               physical, fired)} :
     /\ mScrollStepper' = StepperNext(mScrollStepper, 2, dt)
     /\ mScrollOffset' = r.offset
     /\ scrolled' = [op |-> "scroll", fired |-> fired,
                     nudge |-> r.nudged.y - mScrollOffset.y,
                     correction |-> [x |-> r.unclamped.x - r.nudged.x,
                                     y |-> r.unclamped.y - r.nudged.y],
                     unclamped |-> r.unclamped]
     /\ UNCHANGED <<level, state, physical, worldPosition, sprite,
                    mTimeStepper, last, rendererVars>>

\* sample player positions around the edges of the dead zones and far outside
ScrollPosXs == {0, 11, 12, 19, 40}
ScrollPosYs == {0, 6, 12, 13, 19, 30}

\* the look flags the control system leaves: none, looking up, looking down
LookFlags == {<<FALSE, FALSE>>, <<TRUE, FALSE>>, <<FALSE, TRUE>>}

\* the look flags an update can leave with each state: it sets a flag together
\* with LookingUp or Crouching, and only a jump decided later in the same
\* update changes the state after that
LookFlagsOf(mState) ==
  CASE mState = "LookingUp" -> {<<TRUE, FALSE>>}
    [] mState = "Crouching" -> {<<FALSE, TRUE>>}
    [] mState = "Airborne" -> LookFlags
    [] OTHER -> {<<FALSE, FALSE>>}

\* the player entity as other systems leave it between two scroll updates;
\* the observation of the last scroll update ends there
PlayerMovesX(x) ==
  /\ worldPosition' = [worldPosition EXCEPT !.x = x]
  /\ scrolled' = [op |-> "player"]
  /\ UNCHANGED <<level, state, physical, sprite, mTimeStepper, last,
                 mScrollOffset, mScrollStepper, rendererVars>>

PlayerMovesY(y) ==
  /\ worldPosition' = [worldPosition EXCEPT !.y = y]
  /\ scrolled' = [op |-> "player"]
  /\ UNCHANGED <<level, state, physical, sprite, mTimeStepper, last,
                 mScrollOffset, mScrollStepper, rendererVars>>

PlayerChangesState(mState, flags) ==
  /\ state' = [state EXCEPT !.mState = mState, !.mIsLookingUp = flags[1],
                            !.mIsLookingDown = flags[2]]
  /\ physical' = [physical EXCEPT
                    !.mCollisionRect.h = IF mState = "Crouching" THEN 4 ELSE 5]
  /\ scrolled' = [op |-> "player"]
  /\ UNCHANGED <<level, worldPosition, sprite, mTimeStepper, last,
                 mScrollOffset, mScrollStepper, rendererVars>>

ScrollMaps ==
  { [width |-> mapViewPortWidthTiles + dw, height |-> mapViewPortHeightTiles + dh,
     ladders |-> {}, interactables |-> {}] :
      dw \in (0 - 1) .. MaxMargin, dh \in (0 - 1) .. MaxMargin }

InitScroll ==
  /\ level \in ScrollMaps
  /\ state = InitialState(FALSE)
  /\ sprite = InitialSprite(FALSE)
  /\ physical = InitialPhysical
  /\ worldPosition = [x |-> 12, y |-> 12]
  /\ mTimeStepper = 0
  /\ last = NoOperation
  /\ mScrollOffset = [x |-> 0, y |-> 0]
  /\ mScrollStepper = 0
  /\ scrolled = NoOperation
  /\ RendererIdle

NextScroll ==
  \/ \E dt \in 1 .. MaxDt : ScrollUpdate(dt)
  \/ \E x \in ScrollPosXs : PlayerMovesX(x)
  \/ \E y \in ScrollPosYs : PlayerMovesY(y)
  \/ \E mState \in PlayerStates : \E flags \in LookFlagsOf(mState) :
       PlayerChangesState(mState, flags)

SpecScroll == InitScroll /\ [][NextScroll]_vars

-----------------------------------------------------------------------------
(* The two systems run one after the other *)

\* one tick of the game: PlayerControlSystem::update with the inputs `in`
\* held, then MapScrollSystem::update on the entity it leaves, with the same dt
Tick(in, dt) ==
  \E hasTicks \in {StepperFires(mTimeStepper, 2, dt)} :
  \E c \in {update(in, hasTicks)} :
  \E fired \in {StepperFires(mScrollStepper, 2, dt)} :
  \E r \in {updateScrollOffset(mScrollOffset, level, c.state, c.worldPosition,
                               c.physical, fired)} :
     /\ mTimeStepper' = StepperNext(mTimeStepper, 2, dt)
     /\ state' = c.state
     /\ physical' = c.physical
     /\ worldPosition' = c.worldPosition
     /\ sprite' = c.sprite
     /\ last' = [op |-> "update", in |-> in, dt |-> dt,
                 oldState |-> state.mState,
                 startedAtRest |-> (physical.mVelocity.x = 0),
                 oldBounds |-> c.worldSpacePlayerBounds,
                 ladderTouchPoint |-> c.ladderTouchPoint,
                 events |-> c.events]
     /\ mScrollStepper' = StepperNext(mScrollStepper, 2, dt)
     /\ mScrollOffset' = r.offset
     /\ scrolled' = [op |-> "scroll", fired |-> fired,
                     nudge |-> r.nudged.y - mScrollOffset.y,
                     correction |-> [x |-> r.unclamped.x - r.nudged.x,
                                     y |-> r.unclamped.y - r.nudged.y],
                     unclamped |-> r.unclamped]
     /\ UNCHANGED <<level, rendererVars>>

\* the game starts in the level without interactables
InitGame == Init /\ level.interactables = {}

\* between two ticks the physics system moves the player up or down
NextGame ==
  \/ \E in \in Inputs, dt \in 1 .. MaxDt : Tick(in, dt)
  \/ \E y \in PosYs, vy \in VelYs : PhysicsStep(worldPosition.x, y, vy)

SpecGame == InitGame /\ [][NextGame]_vars

-----------------------------------------------------------------------------
(* The renderer on its own *)

\* a player and a scroll offset nobody updates
PlayerIdle ==
  /\ level = [width |-> mapViewPortWidthTiles, height |-> mapViewPortHeightTiles,
              ladders |-> {}, interactables |-> {}]
  /\ state = InitialState(FALSE)
  /\ sprite = InitialSprite(FALSE)
  /\ physical = InitialPhysical
  /\ worldPosition = [x |-> 0, y |-> 0]
  /\ mTimeStepper = 0
  /\ last = NoOperation
  /\ mScrollOffset = [x |-> 0, y |-> 0]
  /\ mScrollStepper = 0
  /\ scrolled = NoOperation

InitRender ==
  /\ PlayerIdle
  /\ tileMap \in TileMaps
  /\ mElapsedFrames = 0
  /\ animTrace = <<AnimationTable(tileMap, 0)>>
  /\ drawn = [op |-> "none"]
  /\ mScrollMode = "None"
  /\ mElapsedFrames60Fps = 0
  /\ backdrop = [op |-> "none"]

NextRender ==
  \/ \E x \in SectionStarts, y \in SectionStarts, sectionSize \in SectionSizes,
        garbage \in GarbageTiles :
       RenderBackground([x |-> x, y |-> y], sectionSize, garbage)
  \/ \E x \in SectionStarts, y \in SectionStarts, sectionSize \in SectionSizes,
        garbage \in GarbageTiles :
       RenderForeground([x |-> x, y |-> y], sectionSize, garbage)
  \/ \E index \in TileIndices, x \in SectionStarts :
       RenderSingleTile(index, [x |-> 1, y |-> 2], [x |-> x, y |-> 0])
  \/ UpdateAnimatedMapTiles

SpecRender == InitRender /\ [][NextRender]_vars

InitBackdrop ==
  /\ PlayerIdle
  /\ tileMap = [width |-> 1, height |-> 1, pattern |-> 1,
                attributes |-> [foreground |-> {}, animated |-> {},
                                fastAnimation |-> {}]]
  /\ mElapsedFrames = 0
  /\ animTrace = <<>>
  /\ drawn = [op |-> "none"]
  /\ mScrollMode \in ScrollModes
  /\ mElapsedFrames60Fps = 0
  /\ backdrop = [op |-> "none"]

NextBackdrop ==
  \E x \in CameraXs, y \in CameraYs, viewPortSize \in ViewPortSizes :
    RenderBackdrop([x |-> x, y |-> y], viewPortSize)

SpecBackdrop == InitBackdrop /\ [][NextBackdrop]_vars

-----------------------------------------------------------------------------
(* Claims about PlayerControlSystem::update *)

Updated == last.op = "update"

LeftOnly ==
  [mMovingLeft |-> TRUE, mMovingRight |-> FALSE, mMovingUp |-> FALSE,
   mMovingDown |-> FALSE, mJumping |-> FALSE]

\* the last operation was an update of one tick with only left held, begun in
\* Standing with velocity.x = 0
WalkRequestedFromRest(l) ==
  /\ l.op = "update" /\ l.in = LeftOnly /\ l.dt = 1
  /\ l.oldState = "Standing" /\ l.startedAtRest

\* C2: from Standing with velocity.x = 0 and only left held, whatever updates
\* came before, the first update ends in Walking with velocity.x still 0, and
\* the second consecutive update with the same input ends with velocity.x = -1.0
C2_TwoTickDelayFromRequest ==
  [][ /\ WalkRequestedFromRest(last') /\ last' # last
         => state'.mState = "Walking" /\ physical'.mVelocity.x = 0
      /\ (WalkRequestedFromRest(last) /\ last'.op = "update"
          /\ last'.in = LeftOnly /\ last'.dt = 1 /\ mTimeStepper' # mTimeStepper)
         => physical'.mVelocity.x = 0 - 10 ]_vars

\* no cell of the ladder grid in `row`, over the columns of `bounds`, is a ladder
NoLadderInRow(bounds, row) ==
  \A col \in bounds.x .. (bounds.x + bounds.w - 1) : <<col, row>> \notin level.ladders

\* the last update began in ClimbingLadder with down held, up not, and no
\* ladder in the row directly below the player's bounding box
SteppedOffLadder ==
  /\ Updated /\ last.oldState = "ClimbingLadder"
  /\ last.in.mMovingDown /\ ~last.in.mMovingUp
  /\ NoLadderInRow(last.oldBounds, last.oldBounds.y + last.oldBounds.h)

\* C3: climbing, down held, no ladder below the box: after one update the
\* player is Airborne, under gravity, with velocity.y = +1.0, whatever the
\* left, right and jump inputs are
C3_StepOffLadderFalls ==
  SteppedOffLadder =>
    /\ state.mState = "Airborne"
    /\ physical.mGravityAffected
    /\ physical.mVelocity.y = 10

C3_Witness ==
  /\ SteppedOffLadder /\ last.in.mJumping /\ last.in.mMovingLeft
  /\ state.mState = "Airborne" /\ physical.mVelocity.y = 10

Launched ==
  /\ state.mState = "Airborne"
  /\ physical.mGravityAffected
  /\ physical.mVelocity.y = 0 - 36

\* C4, as claimed: every update with jump held that begins in a state other
\* than Airborne ends Airborne, under gravity, with velocity.y = -3.6
C4_JumpFromAnyGroundedState ==
  (Updated /\ last.in.mJumping /\ last.oldState # "Airborne") => Launched

\* C4, amended: the same, except for the update in which a climbing player
\* steps off the bottom of the ladder: that one ends Airborne under gravity
\* with velocity.y = +1.0
C4_JumpUnlessSteppedOff ==
  (Updated /\ last.in.mJumping /\ last.oldState # "Airborne")
    => IF SteppedOffLadder
         THEN /\ state.mState = "Airborne" /\ physical.mGravityAffected
              /\ physical.mVelocity.y = 10
         ELSE Launched

C4_Witness ==
  /\ Updated /\ last.in.mJumping /\ last.oldState = "ClimbingLadder"
  /\ last.in.mMovingDown /\ ~SteppedOffLadder /\ Launched

\* C5: after an update that grabs a ladder, the anchor column (position.x for
\* Left, position.x + 1 for Right) is the column of the ladder cell found, and
\* that cell is a ladder cell inside the box the player had
C5_SnapToLadder ==
  (Updated /\ ~last.ladderTouchPoint.none) =>
    LET touch == last.ladderTouchPoint
        anchor == worldPosition.x + (IF state.mOrientation = "Left" THEN 0 ELSE 1)
    IN /\ last.oldState # "ClimbingLadder"
       /\ anchor = touch.x
       /\ <<touch.x, touch.y>> \in level.ladders
       /\ touch.x \in last.oldBounds.x .. (last.oldBounds.x + last.oldBounds.w - 1)
       /\ touch.y \in last.oldBounds.y .. (last.oldBounds.y + last.oldBounds.h - 1)

C5_Witness ==
  /\ Updated /\ ~last.ladderTouchPoint.none
  /\ state.mOrientation = "Right" /\ state.mState = "ClimbingLadder"
  /\ worldPosition.x # last.oldBounds.x

\* what an update leaves behind: the player's state, velocity, position and
\* gravity flag, and the events emitted
Outcome(c) ==
  <<c.state, c.physical.mVelocity, c.worldPosition, c.physical.mGravityAffected,
    c.events>>

WithoutLeftRight(in) == [in EXCEPT !.mMovingLeft = FALSE, !.mMovingRight = FALSE]
WithoutUpDown(in) == [in EXCEPT !.mMovingUp = FALSE, !.mMovingDown = FALSE]

\* C11: from every player state, an update with left and right both held
\* leaves the same player state and emits the same events as the same update
\* with neither held, and likewise for up and down
C11_ConflictingPairsCancel ==
  \A in \in Inputs, dt \in 1 .. MaxDt :
    LET hasTicks == StepperFires(mTimeStepper, 2, dt) IN
    /\ (in.mMovingLeft /\ in.mMovingRight) =>
         Outcome(update(in, hasTicks)) = Outcome(update(WithoutLeftRight(in), hasTicks))
    /\ (in.mMovingUp /\ in.mMovingDown) =>
         Outcome(update(in, hasTicks)) = Outcome(update(WithoutUpDown(in), hasTicks))

\* the step is a call of PlayerControlSystem::update
UpdateStep == last'.op = "update"

\* C12: once an update has emitted PlayerInteraction events, no later update
\* emits any until an update has run with up not held, and after an update
\* with up not held the interaction-performed flag is false.  Step by step:
\* an update that emits starts with the flag clear and sets it; an update with
\* up held that starts with the flag set emits nothing and leaves it set; an
\* update with up not held emits nothing and leaves the flag clear; nothing
\* but an update changes the flag
C12_InteractionAfterRelease ==
  [][ /\ (UpdateStep /\ last'.events # {}) =>
           /\ ~state.mPerformedInteraction
           /\ state'.mPerformedInteraction
           /\ last'.in.mMovingUp
      /\ (UpdateStep /\ last'.in.mMovingUp /\ state.mPerformedInteraction) =>
           /\ last'.events = {}
           /\ state'.mPerformedInteraction
      /\ (UpdateStep /\ ~last'.in.mMovingUp) =>
           /\ last'.events = {}
           /\ ~state'.mPerformedInteraction
      /\ ~UpdateStep => state'.mPerformedInteraction = state.mPerformedInteraction
    ]_vars

\* an update with only up held, in reach of an interactable, that looked up
\* and emitted nothing because the interaction had been performed
C12_Witness ==
  /\ Updated /\ last.in.mMovingUp /\ ~last.in.mMovingDown
  /\ state.mState = "LookingUp" /\ state.mPerformedInteraction
  /\ last.events = {}
  /\ \E e \in level.interactables :
       HasIntersection(Rect(e.x, e.y - 4, 3, 5), last.oldBounds)

\* C13: an update changes the orientation only when exactly one of left and
\* right is held and the player is not climbing (not at the start of the
\* update, and it grabs no ladder in it); the orientation is then Left if left
\* is held and Right if right is held, also when crouching or looking up
\* cancels the movement.  Every other update leaves the orientation alone
C13_OrientationFollowsInput ==
  [][ UpdateStep =>
        LET in == last'.in
            climbing == state.mState = "ClimbingLadder"
                          \/ ~last'.ladderTouchPoint.none
        IN IF in.mMovingLeft # in.mMovingRight /\ ~climbing
             THEN state'.mOrientation = IF in.mMovingLeft THEN "Left" ELSE "Right"
             ELSE state'.mOrientation = state.mOrientation
    ]_vars

\* right and up held from Standing: the player looks up, does not move, and
\* faces right
C13_Witness ==
  /\ Updated /\ last.oldState = "Standing"
  /\ last.in.mMovingRight /\ ~last.in.mMovingLeft
  /\ last.in.mMovingUp /\ ~last.in.mMovingDown /\ ~last.in.mJumping
  /\ state.mState = "LookingUp" /\ physical.mVelocity.x = 0
  /\ state.mOrientation = "Right"
  /\ sprite.mFramesToRender = 16 + 39

\* a ladder cell lies in `rows`, within the columns of `bounds`
LadderIn(bounds, rows) ==
  \E col \in bounds.x .. (bounds.x + bounds.w - 1), row \in rows :
    <<col, row>> \in level.ladders

RowsOf(bounds) == bounds.y .. (bounds.y + bounds.h - 1)

\* the update found a ladder to attach to
Grabbed(l) == ~l.ladderTouchPoint.none

\* C16, as claimed: an update of a player that is not climbing attaches to a
\* ladder exactly when up is held without down and a ladder cell lies in the
\* top row of the bounding box; a ladder cell in another row of the box causes
\* no grab; it then ends in ClimbingLadder with gravity disabled, and without
\* a grab it does not end in ClimbingLadder
C16_LadderGrabTopRowOnly ==
  [][ (UpdateStep /\ state.mState # "ClimbingLadder") =>
        LET in == last'.in
            bounds == last'.oldBounds
        IN /\ Grabbed(last') <=>
                (in.mMovingUp /\ ~in.mMovingDown /\ LadderIn(bounds, {bounds.y}))
           /\ (Grabbed(last') /\ ~in.mJumping) =>
                (state'.mState = "ClimbingLadder" /\ ~physical'.mGravityAffected)
           /\ ~Grabbed(last') => state'.mState # "ClimbingLadder" ]_vars

\* C16, amended: the same with the search going over every row of the
\* bounding box, and with the jump taken in the same update: when jump is held
\* the update that attaches ends Airborne, under gravity, at the launch velocity
C16_LadderGrabWholeBox ==
  [][ (UpdateStep /\ state.mState # "ClimbingLadder") =>
        LET in == last'.in
            bounds == last'.oldBounds
        IN /\ Grabbed(last') <=>
                (in.mMovingUp /\ ~in.mMovingDown /\ LadderIn(bounds, RowsOf(bounds)))
           /\ (Grabbed(last') /\ ~in.mJumping) =>
                (state'.mState = "ClimbingLadder" /\ ~physical'.mGravityAffected)
           /\ (Grabbed(last') /\ in.mJumping) =>
                /\ state'.mState = "Airborne" /\ physical'.mGravityAffected
                /\ physical'.mVelocity.y = 0 - 36
           /\ ~Grabbed(last') => state'.mState # "ClimbingLadder" ]_vars

\* a player that was not climbing attached to a ladder whose only cells in
\* the box lie below the box's top row
C16_Witness ==
  /\ Updated /\ last.oldState # "ClimbingLadder" /\ Grabbed(last)
  /\ last.in.mMovingUp /\ ~last.in.mMovingDown /\ ~last.in.mJumping
  /\ ~LadderIn(last.oldBounds, {last.oldBounds.y})
  /\ last.ladderTouchPoint.y > last.oldBounds.y
  /\ state.mState = "ClimbingLadder" /\ ~physical.mGravityAffected

\* the player's bounding box in the world, where the player is now
PlayerBox ==
  LET r == physical.mCollisionRect
  IN Rect(r.x + worldPosition.x, (r.y + worldPosition.y) - (r.h - 1), r.w, r.h)

\* C17: after every update that ends in ClimbingLadder, the one that grabs
\* the ladder and snaps the position included, velocity.y is -1 if up is held
\* and a ladder cell lies in the row directly above the player's bounding box,
\* 0 if up is held and none lies there, +1 if down is held and a ladder cell
\* lies in the row directly below the box, and 0 without effective vertical
\* input; cells outside the map are not ladder cells
C17_ClimbingVelocity ==
  (Updated /\ state.mState = "ClimbingLadder") =>
    LET up == last.in.mMovingUp /\ ~last.in.mMovingDown
        down == last.in.mMovingDown /\ ~last.in.mMovingUp
        above == PlayerBox.y - 1
        below == PlayerBox.y + PlayerBox.h
    IN /\ (up /\ LadderIn(PlayerBox, {above})) => physical.mVelocity.y = 0 - 10
       /\ (up /\ ~LadderIn(PlayerBox, {above})) => physical.mVelocity.y = 0
       /\ down => (LadderIn(PlayerBox, {below}) /\ physical.mVelocity.y = 10)
       /\ (~up /\ ~down) => physical.mVelocity.y = 0

\* C18: an update that starts in Airborne does not end in LookingUp or
\* Crouching and leaves both look flags clear, whatever the inputs and the
\* vertical velocity; it ends in Airborne, in Standing (landed, with
\* velocity.y = 0) or in ClimbingLadder
C18_NoLookInMidAir ==
  (Updated /\ last.oldState = "Airborne") =>
    /\ state.mState \in {"Airborne", "Standing", "ClimbingLadder"}
    /\ ~state.mIsLookingUp /\ ~state.mIsLookingDown
    /\ state.mState = "Standing" => physical.mVelocity.y = 0

\* a falling player with down held keeps falling and does not crouch
C18_Witness ==
  /\ Updated /\ last.oldState = "Airborne"
  /\ last.in.mMovingDown /\ ~last.in.mMovingUp
  /\ state.mState = "Airborne" /\ physical.mVelocity.y = 20
  /\ ~state.mIsLookingDown

\* the last update had no effective horizontal request: neither or both of
\* left and right held, or the player climbing (from the start, or grabbing a
\* ladder), or one of up and down held from Standing, Walking, LookingUp or
\* Crouching
NoHorizontalRequest ==
  \/ last.in.mMovingLeft = last.in.mMovingRight
  \/ last.oldState = "ClimbingLadder" \/ Grabbed(last)
  \/ /\ last.in.mMovingUp # last.in.mMovingDown
     /\ last.oldState \in {"Standing", "Walking", "LookingUp", "Crouching"}

\* the same, with up or down held, both held included
NoHorizontalRequestAsClaimed ==
  \/ last.in.mMovingLeft = last.in.mMovingRight
  \/ last.oldState = "ClimbingLadder" \/ Grabbed(last)
  \/ /\ (last.in.mMovingUp \/ last.in.mMovingDown)
     /\ last.oldState \in {"Standing", "Walking", "LookingUp", "Crouching"}

\* C19, as claimed: after an update with neither or both of left and right
\* held, or with the player climbing, or with up or down held from Standing,
\* Walking, LookingUp or Crouching, velocity.x is 0 and the state is not
\* Walking, whether the 2-tick delay has fired or not
C19_StopsWhenUpOrDownHeld ==
  (Updated /\ NoHorizontalRequestAsClaimed) =>
    (physical.mVelocity.x = 0 /\ state.mState # "Walking")

\* C19, amended: the same with exactly one of up and down held
C19_StopsAtOnce ==
  (Updated /\ NoHorizontalRequest) =>
    (physical.mVelocity.x = 0 /\ state.mState # "Walking")

\* a walking, moving player crouches with left still held, in an update in
\* which the delay did not fire: it stops at once
C19_Witness ==
  /\ Updated /\ last.oldState = "Walking" /\ ~last.startedAtRest
  /\ last.in.mMovingLeft /\ ~last.in.mMovingRight
  /\ last.in.mMovingDown /\ ~last.in.mMovingUp
  /\ last.dt = 1 /\ mTimeStepper = 1
  /\ state.mState = "Crouching" /\ physical.mVelocity.x = 0

\* the base sprite frame of each state, as the claim lists them
FrameOf(mState) ==
  CASE mState = "Standing" -> 0
    [] mState = "Walking" -> 1
    [] mState = "LookingUp" -> 16
    [] mState = "Crouching" -> 17
    [] mState = "Airborne" -> 8
    [] mState = "ClimbingLadder" -> 36

\* the collision box and the sprite frame are those of the state and orientation
BoxAndFrameOfState ==
  /\ physical.mCollisionRect =
       Rect(0, 0, 3, IF state.mState = "Crouching" THEN 4 ELSE 5)
  /\ sprite.mFramesToRender =
       FrameOf(state.mState) + (IF state.mOrientation = "Right" THEN 39 ELSE 0)

\* C21: after any sequence of updates from an initialized player, the
\* collision box is 3 wide and 4 high exactly when the state is Crouching and
\* 5 high otherwise, and the sprite frame is frame(state) + (39 if the
\* orientation is Right); an update that changes neither the state nor the
\* orientation leaves the box and the frame untouched
C21_BoxAndFrameFollowState ==
  /\ []BoxAndFrameOfState
  /\ [][ (UpdateStep /\ state'.mState = state.mState
                     /\ state'.mOrientation = state.mOrientation)
           => (/\ physical'.mCollisionRect = physical.mCollisionRect
               /\ sprite'.mFramesToRender = sprite.mFramesToRender)
       ]_vars

\* a player that was not crouching crouched and turned right: the box is 4
\* high and the frame is the mirrored crouching frame
C21_Witness ==
  /\ Updated /\ last.oldState # "Crouching"
  /\ last.in.mMovingRight /\ ~last.in.mMovingLeft
  /\ state.mState = "Crouching" /\ state.mOrientation = "Right"
  /\ physical.mCollisionRect = Rect(0, 0, 3, 4)
  /\ sprite.mFramesToRender = 56

\* the last update took the player off the ladder
LeftLadder ==
  Updated /\ last.oldState = "ClimbingLadder" /\ state.mState # "ClimbingLadder"

\* C22: after any sequence of updates from an initialized player, gravity is
\* disabled exactly when the state is ClimbingLadder; every update that takes
\* the player off the ladder re-enables gravity, and no update leaves a
\* player that is not climbing with gravity disabled
C22_GravityOffExactlyWhenClimbing ==
  /\ ~physical.mGravityAffected <=> state.mState = "ClimbingLadder"
  /\ LeftLadder => physical.mGravityAffected

\* a climbing player held down at the bottom of the ladder, with no jump
\* requested: it is airborne, sinking, and gravity acts on it again
C22_Witness ==
  /\ LeftLadder /\ ~last.in.mJumping /\ last.in.mMovingDown
  /\ state.mState = "Airborne"
  /\ physical.mVelocity.y = 10
  /\ physical.mGravityAffected

-----------------------------------------------------------------------------
(* Claims about MapScrollSystem *)

InScrollRange ==
  /\ 0 <= mScrollOffset.x /\ mScrollOffset.x <= level.width - mapViewPortWidthTiles
  /\ 0 <= mScrollOffset.y /\ mScrollOffset.y <= level.height - mapViewPortHeightTiles

\* C1, as claimed: after any sequence of scroll updates, for every map size,
\* 0 <= x <= mapWidth - viewportWidth and 0 <= y <= mapHeight - viewportHeight
C1_OffsetInRangeEveryMap ==
  scrolled.op = "scroll" => InScrollRange

\* C1, amended: the same for every map at least as large as the viewport on
\* both axes
C1_OffsetInRange ==
  (/\ scrolled.op = "scroll"
   /\ level.width >= mapViewPortWidthTiles
   /\ level.height >= mapViewPortHeightTiles) => InScrollRange

\* the clamp cut the offset back at the far edge of a map larger than the viewport
C1_Witness ==
  /\ scrolled.op = "scroll"
  /\ level.width > mapViewPortWidthTiles /\ level.height > mapViewPortHeightTiles
  /\ scrolled.unclamped.x > mScrollOffset.x /\ scrolled.unclamped.y > mScrollOffset.y
  /\ mScrollOffset.x = level.width - mapViewPortWidthTiles
  /\ mScrollOffset.y = level.height - mapViewPortHeightTiles

\* C14: with the control update and then the scroll update run in every
\* tick, the look nudge is -2 only when the scroll delay fires and the player
\* is LookingUp after the control update, +2 only when it fires and the player
\* is Crouching, and there is none when the player is Standing, Walking,
\* Airborne or ClimbingLadder
C14_NudgeOnlyWhenLooking ==
  scrolled.op = "scroll" =>
    /\ scrolled.nudge \in {0 - 2, 0, 2}
    /\ scrolled.nudge = 0 - 2 => (scrolled.fired /\ state.mState = "LookingUp")
    /\ scrolled.nudge = 2 => (scrolled.fired /\ state.mState = "Crouching")
    /\ state.mState \in {"Standing", "Walking", "Airborne", "ClimbingLadder"}
         => scrolled.nudge = 0

\* the player's collision box in the world, and the dead zone of the
\* player's state positioned at a scroll offset, as spans on each axis
BoxSpan ==
  [left |-> worldPosition.x,
   right |-> worldPosition.x + physical.mCollisionRect.w - 1,
   top |-> worldPosition.y - (physical.mCollisionRect.h - 1),
   bottom |-> worldPosition.y]

ZoneSpan(offset) ==
  LET zone == IF state.mState = "ClimbingLadder" THEN ClimbingDeadZone
                                                 ELSE DefaultDeadZone
  IN [left |-> zone.x + offset.x, right |-> zone.x + offset.x + zone.w - 1,
      top |-> zone.y + offset.y, bottom |-> zone.y + offset.y + zone.h - 1]

InsideX(offset) ==
  ZoneSpan(offset).left <= BoxSpan.left /\ BoxSpan.right <= ZoneSpan(offset).right
InsideY(offset) ==
  ZoneSpan(offset).top <= BoxSpan.top /\ BoxSpan.bottom <= ZoneSpan(offset).bottom

\* one step towards zero
Shorter(d) == IF d > 0 THEN d - 1 ELSE d + 1

\* the step is a call of MapScrollSystem::update: the player is as before
ScrollStep == scrolled'.op = "scroll" /\ UNCHANGED <<state, physical, worldPosition>>

\* the offset the correction is computed at: the old offset and the look nudge
NudgedOffset == [x |-> mScrollOffset.x, y |-> mScrollOffset.y + scrolled'.nudge]

\* the correction is the shortest shift of the offset, on each axis, that has
\* the box inside the dead zone (0 when it is inside already), and the box is
\* inside the dead zone at the new offset when the clamp did not alter it
MinimalCorrection ==
  LET d == scrolled'.correction
      at(dx, dy) == [x |-> NudgedOffset.x + dx, y |-> NudgedOffset.y + dy]
  IN /\ scrolled'.unclamped = at(d.x, d.y)
     /\ InsideX(NudgedOffset) => d.x = 0
     /\ InsideY(NudgedOffset) => d.y = 0
     /\ InsideX(at(d.x, 0)) /\ (d.x # 0 => ~InsideX(at(Shorter(d.x), 0)))
     /\ InsideY(at(0, d.y)) /\ (d.y # 0 => ~InsideY(at(0, Shorter(d.y))))
     /\ mScrollOffset' = scrolled'.unclamped =>
          (InsideX(mScrollOffset') /\ InsideY(mScrollOffset'))

NothingToCorrect ==
  scrolled'.nudge = 0 /\ InsideX(mScrollOffset) /\ InsideY(mScrollOffset)

\* C15, as claimed: the correction is minimal as above, and a scroll update
\* without a look nudge and with the box inside the dead zone leaves the scroll
\* offset unchanged
C15_DeadZoneFollowingEveryMap ==
  [][ ScrollStep =>
        /\ MinimalCorrection
        /\ NothingToCorrect => mScrollOffset' = mScrollOffset ]_vars

\* C15, amended: the correction is minimal as above; a scroll update without a
\* look nudge and with the box inside the dead zone leaves the offset unchanged
\* up to the final clamp, and unchanged when the map is at least as large as
\* the viewport on both axes
C15_DeadZoneFollowing ==
  [][ ScrollStep =>
        /\ MinimalCorrection
        /\ NothingToCorrect =>
             /\ scrolled'.unclamped = mScrollOffset
             /\ (level.width >= mapViewPortWidthTiles
                 /\ level.height >= mapViewPortHeightTiles)
                  => mScrollOffset' = mScrollOffset ]_vars

\* a climbing player below the climbing dead zone: the offset was shifted down
\* by one row, the clamp did not alter it, and the box touches the bottom of
\* the dead zone
C15_Witness ==
  /\ scrolled.op = "scroll" /\ state.mState = "ClimbingLadder"
  /\ scrolled.nudge = 0 /\ scrolled.correction = [x |-> 0, y |-> 1]
  /\ mScrollOffset = scrolled.unclamped
  /\ BoxSpan.bottom = ZoneSpan(mScrollOffset).bottom
  /\ InsideX(mScrollOffset) /\ InsideY(mScrollOffset)

-----------------------------------------------------------------------------
(* Claims about MapRenderer's tile layers *)

RenderedSection == drawn.op \in {"background", "foreground"}

\* C6: every tile lookup of renderBackground and renderForeground, for every
\* map size, section origin (negative ones too) and section size, has
\* 0 <= col < width and 0 <= row < height
C6_LookupsInsideMap ==
  RenderedSection => \A c \in drawn.lookups : InMap(tileMap, c[2], c[3])

\* the drawn index of tile t at frame n as the claim states it
ClaimedIndex(t, n) ==
  IF isAnimated(tileMap, t)
    THEN t + ((n \div (IF isFastAnimation(tileMap, t) THEN 1 ELSE 2)) % 4)
    ELSE t

\* the frame counter's value when the i-th table of animTrace was taken
FrameOfEntry(i) == mElapsedFrames - (Len(animTrace) - i)

\* k calls of updateAnimatedMapTiles always bring tile t's drawn index back
Repeats(t, k) ==
  \A i \in 1 .. (Len(animTrace) - k) : animTrace[i + k][t] = animTrace[i][t]

\* C8: an animated tile's drawn index is base + ((n / delay) mod 4), delay 1
\* for fast and 2 for slow tiles; it lies in [base, base+3]; it repeats after
\* exactly 4 (fast) or 8 (slow) calls of updateAnimatedMapTiles and after no
\* smaller number; a tile that is not animated is drawn with its own index
C8_AnimatedTilePeriod ==
  /\ \A t \in TileIndices :
       /\ \A i \in 1 .. Len(animTrace) :
            /\ animTrace[i][t] = ClaimedIndex(t, FrameOfEntry(i))
            /\ isAnimated(tileMap, t) => animTrace[i][t] \in t .. (t + 3)
            /\ ~isAnimated(tileMap, t) => animTrace[i][t] = t
       /\ (isAnimated(tileMap, t) /\ Len(animTrace) = 9) =>
            LET period == IF isFastAnimation(tileMap, t) THEN 4 ELSE 8
            IN /\ Repeats(t, period)
               /\ \A k \in 1 .. (period - 1) : ~Repeats(t, k)
  /\ (drawn.op \in {"background", "foreground", "single"}) =>
       \A d \in drawn.draws : d.index = ClaimedIndex(d.tile, mElapsedFrames)

\* the counter has gone through more than a whole slow cycle, and the map's
\* dictionary has a fast and a slow animated tile
C8_Witness ==
  /\ Len(animTrace) = 9 /\ mElapsedFrames > 9
  /\ \E t \in TileIndices : isAnimated(tileMap, t) /\ isFastAnimation(tileMap, t)
  /\ \E t \in TileIndices : isAnimated(tileMap, t) /\ ~isFastAnimation(tileMap, t)
  /\ animTrace[9] # animTrace[5]

\* C9: renderBackground, renderForeground and renderSingleTile never issue a
\* draw for tile index 0
C9_TransparentTileNeverDrawn ==
  (drawn.op \in {"background", "foreground", "single"}) =>
    \A d \in drawn.draws : d.tile # 0

\* a foreground pass over a map whose transparent tile is a foreground tile
\* visited a cell holding tile 0, and drew other tiles
C9_Witness ==
  /\ drawn.op = "foreground"
  /\ isForeGround(tileMap, 0)
  /\ \E c \in drawn.lookups :
       InMap(tileMap, c[2], c[3]) /\ TileOfPattern(tileMap.pattern, c[1], c[2], c[3]) = 0
  /\ drawn.draws # {}
  /\ mElapsedFrames > 0

-----------------------------------------------------------------------------
(* Claims about MapRenderer's backdrop *)

\* C7: in the ParallaxHorizontal and ParallaxBoth modes, for any camera
\* position (negative ones too), the backdrop offset is in
\* [0, viewPortWidthPx) on x and, in ParallaxBoth, in [0, viewPortHeightPx) on y
C7_ParallaxOffsetWrapped ==
  (backdrop.op = "backdrop" /\ mScrollMode \in {"ParallaxHorizontal", "ParallaxBoth"}) =>
    /\ backdrop.offset.x >= 0 /\ backdrop.offset.x < viewPortWidthPx
    /\ mScrollMode = "ParallaxBoth" =>
         (backdrop.offset.y >= 0 /\ backdrop.offset.y < viewPortHeightPx)

\* C10: in AutoHorizontal mode a renderBackdrop call made at counter value n
\* computes offset.x = round(n / 2.0) mod viewPortWidthPx and offset.y = 0
\* (60 at n = 120), whatever the camera position, and adds one to the counter
C10_AutoHorizontalOffset ==
  (backdrop.op = "backdrop" /\ mScrollMode = "AutoHorizontal") =>
    /\ \E r \in 0 .. backdrop.frames :
         /\ 2 * r - backdrop.frames \in {0 - 1, 0, 1}
         /\ backdrop.offset.x = r % viewPortWidthPx
    /\ backdrop.offset.y = 0
    /\ backdrop.frames = 120 => backdrop.offset.x = 60
    /\ mElapsedFrames60Fps = backdrop.frames + 1

\* a call past the first wrap of the offset, with the camera away from the origin
C10_Witness ==
  /\ backdrop.op = "backdrop" /\ mScrollMode = "AutoHorizontal"
  /\ backdrop.frames = 644
  /\ backdrop.offset.x = 2
  /\ backdrop.cameraPosition.x < 0 /\ backdrop.cameraPosition.y > 0

\* C20: at the same counter value n, counted from 0, the unwrapped advance of
\* the backdrop in AutoHorizontal mode is twice the advance in AutoVertical
\* mode, and in AutoVertical mode the offset is
\* viewPortHeightPx - (advance mod viewPortHeightPx) on y and 0 on x
C20_HorizontalTwiceVertical ==
  (backdrop.op = "backdrop" /\ IsAutoScroll(mScrollMode)) =>
    LET n == backdrop.frames
        advance == backdrop.offsetPixels
    IN /\ mScrollMode = "AutoHorizontal" =>
            \E vertical \in round(n, speedFactor("AutoVertical")) :
              advance = 2 * vertical
       /\ mScrollMode = "AutoVertical" =>
            /\ \E horizontal \in round(n, speedFactor("AutoHorizontal")) :
                 horizontal = 2 * advance
            /\ backdrop.offset.x = 0
            /\ backdrop.offset.y = viewPortHeightPx - (advance % viewPortHeightPx)

====
